---- MODULE Spec2Model ----
(***************************************************************************)
(* A model of the seq2seq repository: the character tokenizer              *)
(* (seq2seq/tokenizer/character_tokenizer.py), multi-head attention        *)
(* (seq2seq/transformer/attention.py) and the decoder stack                *)
(* (seq2seq/transformer/decoder.py).                                       *)
(*                                                                         *)
(* Characters are Unicode code points (integers), strings are sequences of *)
(* code points.  Python indices are 0-based: position i of a Python        *)
(* sequence is element i+1 of the TLA+ sequence.                           *)
(***************************************************************************)
EXTENDS Integers, Sequences, FiniteSets, TLC

(***************************************************************************)
(* Bounds of the model.                                                    *)
(***************************************************************************)
MaxTextLen == 2
MaxIdsLen == 2
MaxB == 2          \* batch sizes 1..MaxB
MaxT == 2          \* target (query) lengths 1..MaxT
MaxC == 4          \* channel widths 1..MaxC handed to split_heads
MaxHeads == 2      \* num_heads 1..MaxHeads
MaxVec == 2        \* qk_length, value_length and vec_length 1..MaxVec
MaxS == 2          \* source (key) lengths 1..MaxS
MaxEmb == 2        \* embedding_dim 1..MaxEmb of a stand-alone attention layer
MaxLayers == 2     \* num_layers 0..MaxLayers

VARIABLES
  \* CharacterTokenizer
  characters,   \* self.characters
  vocab,        \* self.vocab: char -> id
  text,         \* argument of the last encode call
  encoded,      \* tensor returned by the last encode call
  ids,          \* tensor passed to the last decode call
  decoded,      \* string returned by the last decode call
  last,         \* the last call made on the tokenizer
  \* MultiHeadAttention.split_heads / combine_heads
  hHeads,       \* self.num_heads
  hVec,         \* the vec_length argument
  hX,           \* the tensor handed to split_heads
  hSplit,       \* the result of split_heads
  hCombined,    \* the result of combine_heads
  hpc,          \* "start", "split", "combined"
  \* MultiHeadAttention.scaled_dot_product_attention, one (batch, head) slice
  aQ,           \* Q: T rows of qk_length numbers
  aK,           \* K: S rows of qk_length numbers
  aV,           \* V: S rows of value_length numbers
  aMask,        \* mask: None, or T rows of S entries
  aScores,      \* scores before masking
  aMasked,      \* scores after masked_fill
  aWeights,     \* attention_weights
  aOut,         \* the tensor returned
  apc,          \* "start", "done"
  \* MultiHeadAttention.forward, shapes only
  mCfg,         \* the constructor's arguments
  mIn,          \* the arguments of the forward call
  mRes,         \* the tensors the forward call computed
  mpc,          \* "start", "done"
  \* Decoder.forward, shapes only
  dCfg,         \* the constructor's arguments
  dIn,          \* the arguments of the forward call
  dX,           \* the local variable x
  dLayer,       \* index (from 1) of the decoder layer running or to run next
  dLog,         \* the sub-blocks run so far, in order
  dpc           \* the next step of Decoder.forward / DecoderLayer.forward

tokVars == <<characters, vocab, text, encoded, ids, decoded, last>>

headVars == <<hHeads, hVec, hX, hSplit, hCombined, hpc>>

attnVars == <<aQ, aK, aV, aMask, aScores, aMasked, aWeights, aOut, apc>>

mhaVars == <<mCfg, mIn, mRes, mpc>>
decVars == <<dCfg, dIn, dX, dLayer, dLog, dpc>>

vars == <<tokVars, headVars, attnVars, mhaVars, decVars>>

\* the variables of the other components
notTok == <<headVars, attnVars, mhaVars, decVars>>
notHeads == <<tokVars, attnVars, mhaVars, decVars>>
notAttn == <<tokVars, headVars, mhaVars, decVars>>
notMha == <<tokVars, headVars, attnVars, decVars>>
notDec == <<tokVars, headVars, attnVars, mhaVars>>

(***************************************************************************)
(* CharacterTokenizer                                                      *)
(***************************************************************************)

\* The alphabet string literal of __init__, as code points.
Alphabet ==
  <<
    97, 224, 226, 230, 98, 99, 231, 100, 101, 233, 232, 234,
    235, 102, 103, 104, 105, 238, 239, 106, 107, 108, 109, 110,
    111, 244, 339, 112, 113, 114, 115, 116, 117, 249, 251, 252,
    118, 119, 120, 121, 255, 122, 48, 49, 50, 51, 52, 53,
    54, 55, 56, 57, 44, 59, 46, 33, 63, 58, 39, 34,
    47, 92, 124, 95, 64, 35, 36, 37, 94, 38, 42, 126,
    96, 43, 45, 61, 60, 62, 40, 41, 91, 93, 123, 125,
    8217, 8226, 8211, 237, 8364, 243, 225, 171, 187, 8230, 32, 186,
    9702, 169, 246, 176, 228, 181, 8212, 248, 173, 183, 242, 227,
    241, 8213, 189, 188, 947, 174, 8658, 178, 9642, 8722, 8730, 165,
    163, 164, 223, 180, 250, 170, 190, 1108, 8482, 65292, 64257, 245,
    8202, 8197, 65533, 9658, 9633, 8242, 8243, 168, 179, 8209, 61607, 61623,
    61472, 61553, 175, 8776, 710, 167, 8240, 9679, 64258, 8657, 10136, 9312,
    9313, 8222, 8804, 177, 8224, 10012, 10004, 10154, 10006, 9687, 162, 3652,
    3607, 3618, 7871, 7879, 949, 955, 951, 957, 953, 954, 945, 229,
    351, 305, 1088, 1091, 1089, 1082, 1080, 1081, 160, 54620, 44397, 50612,
    27721, 35821, 382, 185, 191, 353, 263, 254, 8218, 8219, 9472, 247,
    12296, 184, 9135, 215, 8592, 8594, 8721, 948, 9632, 697, 8208, 8805,
    964, 59, 8710, 8481, 402, 240, 172, 161, 166, 946, 981, 9660,
    8260, 961, 963, 8901, 8801, 8706, 8800, 63737, 63738, 63739, 960, 9115,
    9116, 9118, 969, 8727, 63719
  >>

\* The for loop of __init__, iterations lo..hi: vocab[char] = idx for idx, char
\* in enumerate(chars).  The result is the dict of the assignments made; a later
\* assignment to a character overwrites an earlier one, so the assignments of
\* mid+1..hi take priority over those of lo..mid.
RECURSIVE VocabLoop(_, _, _)
VocabLoop(chars, lo, hi) ==
  IF lo > hi THEN <<>>
  ELSE IF lo = hi THEN chars[lo] :> (lo - 1)
  ELSE LET mid == (lo + hi) \div 2
       IN VocabLoop(chars, mid + 1, hi) @@ VocabLoop(chars, lo, mid)

\* self.vocab = {} followed by the loop over the whole alphabet.
BuildVocab(chars) == VocabLoop(chars, 1, Len(chars))

\* The vocabulary of a constructed tokenizer (evaluated once).
InitialVocab == BuildVocab(Alphabet)

\* str.lower() of one character.  Covers ASCII, Latin-1 and U+0130 (whose
\* lower case is the two code points U+0069 U+0307); every other code point
\* used as an input below is caseless.
LowerChar(c) ==
  IF c \in 65..90 THEN <<c + 32>>
  ELSE IF c \in (192..222) \ {215} THEN <<c + 32>>
  ELSE IF c = 304 THEN <<105, 775>>
  ELSE <<c>>

\* text.lower()
RECURSIVE LowerText(_)
LowerText(s) == IF s = <<>> THEN <<>> ELSE LowerChar(Head(s)) \o LowerText(Tail(s))

\* torch.tensor(list): an empty list gives a float32 tensor of shape (0,),
\* a list of ints an int64 tensor.
Tensor(list) == [dtype |-> IF list = <<>> THEN "float32" ELSE "int64", data |-> list]

\* The loop of encode over an already lower-cased string.
RECURSIVE EncodeLoop(_, _)
EncodeLoop(v, s) ==
  IF s = <<>> THEN <<>>
  ELSE IF Head(s) \in DOMAIN v
       THEN <<v[Head(s)]>> \o EncodeLoop(v, Tail(s))
       ELSE EncodeLoop(v, Tail(s))

\* Faulty variant, for the mutation check: encode without text.lower().
EncodeNoLower(v, s) == Tensor(EncodeLoop(v, s))

\* Faulty variant, for the mutation check: encode that emits id 0 for an out-of-vocabulary character.
RECURSIVE UnkLoop(_, _)
UnkLoop(v, s) ==
  IF s = <<>> THEN <<>>
  ELSE <<IF Head(s) \in DOMAIN v THEN v[Head(s)] ELSE 0>> \o UnkLoop(v, Tail(s))

EncodeUnkZero(v, s) == Tensor(UnkLoop(v, LowerText(s)))

\* CharacterTokenizer.encode
EncodeOp(v, s) == Tensor(EncodeLoop(v, LowerText(s)))

\* reverse = {v: k for k, v in self.vocab.items()}: its keys are the ids some
\* character maps to, and reverse[id] is the character that maps to id.  (The
\* loop of __init__ gives each id to one character only, so that character is
\* unique.)
ReverseKeys(v) == {v[c] : c \in DOMAIN v}
ReverseAt(v, id) == CHOOSE c \in DOMAIN v : v[c] = id

\* The loop of decode over the items of the tensor.
RECURSIVE DecodeLoop(_, _)
DecodeLoop(v, toks) ==
  IF toks = <<>> THEN <<>>
  ELSE IF Head(toks) \in ReverseKeys(v)
       THEN <<ReverseAt(v, Head(toks))>> \o DecodeLoop(v, Tail(toks))
       ELSE DecodeLoop(v, Tail(toks))

\* Faulty variant, for the mutation check: decode that indexes the alphabet string instead of the reversed vocab.
RECURSIVE AlphabetLoop(_)
AlphabetLoop(toks) ==
  IF toks = <<>> THEN <<>>
  ELSE IF Head(toks) \in 0..(Len(Alphabet) - 1)
       THEN <<Alphabet[Head(toks) + 1]>> \o AlphabetLoop(Tail(toks))
       ELSE AlphabetLoop(Tail(toks))

DecodeByAlphabet(v, t) == AlphabetLoop(t.data)

\* CharacterTokenizer.decode
DecodeOp(v, t) == DecodeLoop(v, t.data)

\* Inputs of the model.  Characters: a, A, ';' (twice in the alphabet), E-acute,
\* U+0130 (lower-cases to two code points, the second out of vocabulary), TAB
\* (out of vocabulary).
InputChars == {97, 65, 59, 201, 304, 9}
\* Ids: 0, the two positions of ';' (53, 217), one past the last id, -1.
InputIds == {0, 53, 217, 245, -1}

RECURSIVE SeqsUpTo(_, _)
SeqsUpTo(S, n) ==
  IF n = 0 THEN {<<>>}
  ELSE LET shorter == SeqsUpTo(S, n - 1)
       IN shorter \cup {Append(s, x) : s \in {t \in shorter : Len(t) = n - 1}, x \in S}

Texts == SeqsUpTo(InputChars, MaxTextLen)
IdSeqs == SeqsUpTo(InputIds, MaxIdsLen)

TokInit ==
  /\ characters = Alphabet
  /\ vocab = InitialVocab
  /\ text = <<>>
  /\ encoded = Tensor(<<>>)
  /\ ids = Tensor(<<>>)
  /\ decoded = <<>>
  /\ last = "init"

\* Faulty variant, for the mutation check: encode that adds each unseen character to the vocabulary.
EncodeLearns(s) ==
  /\ text' = s
  /\ vocab' = [c \in (DOMAIN vocab) \cup {LowerText(s)[i] : i \in DOMAIN LowerText(s)} |->
                 IF c \in DOMAIN vocab THEN vocab[c] ELSE Cardinality(DOMAIN vocab)]
  /\ encoded' = EncodeOp(vocab', s)
  /\ ids' = Tensor(<<>>)
  /\ decoded' = <<>>
  /\ last' = "encode"
  /\ UNCHANGED <<characters, notTok>>

\* A call tokenizer.encode(s).  text and encoded record the call; ids and
\* decoded (the record of a decode call made after it) are cleared.
Encode(s) ==
  /\ text' = s
  /\ encoded' = EncodeOp(vocab, s)
  /\ ids' = Tensor(<<>>)
  /\ decoded' = <<>>
  /\ last' = "encode"
  /\ UNCHANGED <<characters, vocab, notTok>>

\* A call tokenizer.decode(t).
Decode(t) ==
  /\ ids' = t
  /\ decoded' = DecodeOp(vocab, t)
  /\ last' = "decode"
  /\ UNCHANGED <<characters, vocab, notTok>>

TokEncode == \E s \in Texts : Encode(s)
\* decode of an arbitrary id tensor, on a tokenizer with no encode call on record
TokDecode == \E l \in IdSeqs : Decode(Tensor(l)) /\ text' = <<>> /\ encoded' = Tensor(<<>>)
\* decode applied to the tensor the last encode returned
TokDecodeEncoded == last = "encode" /\ Decode(encoded) /\ UNCHANGED <<text, encoded>>

TokNext == TokEncode \/ TokDecode \/ TokDecodeEncoded

\* no tokenizer constructed: the state of the tokenizer variables in the
\* specifications of the transformer modules
TokAbsent ==
  /\ characters = <<>>
  /\ vocab = <<>>
  /\ text = <<>>
  /\ encoded = Tensor(<<>>)
  /\ ids = Tensor(<<>>)
  /\ decoded = <<>>
  /\ last = "absent"

(***************************************************************************)
(* Tensors.  A tensor is its shape and its elements in row-major           *)
(* (contiguous) order; status is "ok", or the exception an operation       *)
(* raised.                                                                 *)
(***************************************************************************)

RECURSIVE Prod(_)
Prod(sh) == IF sh = <<>> THEN 1 ELSE Head(sh) * Prod(Tail(sh))

Ok(sh, data) == [status |-> "ok", shape |-> sh, data |-> data]
Raised(exc) == [status |-> exc, shape |-> <<>>, data |-> <<>>]
NoTensor == Raised("none")

\* a tensor whose element at flat position n is n: every element is distinct,
\* so that any permutation of the elements shows
Iota(sh) == Ok(sh, [n \in 1..Prod(sh) |-> n - 1])

\* x.view(sh) of a contiguous tensor: same elements, new shape; RuntimeError
\* when the number of elements differs
View(x, sh) ==
  IF Prod(sh) # Prod(x.shape) THEN Raised("RuntimeError") ELSE Ok(sh, x.data)

\* x.permute(0, 2, 1, 3).contiguous() of a 4-d tensor: element (b, i, j, k) of
\* the result is element (b, j, i, k) of x
Permute0213(x) ==
  LET s == x.shape
      ns == <<s[1], s[3], s[2], s[4]>>
  IN Ok(ns, [n \in 1..Prod(ns) |->
               LET m == n - 1
                   k == m % ns[4]
                   j == (m \div ns[4]) % ns[3]
                   i == (m \div (ns[4] * ns[3])) % ns[2]
                   b == m \div (ns[4] * ns[3] * ns[2])
               IN x.data[((b * s[2] + j) * s[3] + i) * s[4] + k + 1]])

\* Faulty variant, for the mutation check: split_heads that views (B, T, C) as (B, num_heads, T, vec_length)
\* without permuting.
SplitHeadsViewOnly(x, num_heads, vec_length) ==
  IF x.shape[3] \div num_heads # vec_length THEN Raised("AssertionError")
  ELSE View(x, <<x.shape[1], num_heads, x.shape[2], vec_length>>)

\* MultiHeadAttention.split_heads
SplitHeads(x, num_heads, vec_length) ==
  LET B == x.shape[1]
      T == x.shape[2]
      C == x.shape[3]
  IN IF C \div num_heads # vec_length THEN Raised("AssertionError")
     ELSE LET v == View(x, <<B, T, num_heads, vec_length>>)
          IN IF v.status # "ok" THEN v ELSE Permute0213(v)

\* MultiHeadAttention.combine_heads
CombineHeads(x) ==
  LET B == x.shape[1]
      num_heads == x.shape[2]
      T == x.shape[3]
      vec_length == x.shape[4]
  IN View(Permute0213(x), <<B, T, num_heads * vec_length>>)

HeadsIdle ==
  /\ hHeads = 0
  /\ hVec = 0
  /\ hX = NoTensor
  /\ hSplit = NoTensor
  /\ hCombined = NoTensor
  /\ hpc = "idle"

HeadsInit ==
  /\ hHeads \in 1..MaxHeads
  /\ hVec \in 1..MaxVec
  /\ \E B \in 1..MaxB, T \in 1..MaxT, C \in 1..MaxC : hX = Iota(<<B, T, C>>)
  /\ hSplit = NoTensor
  /\ hCombined = NoTensor
  /\ hpc = "start"

\* the call split_heads(x, vec_length)
HeadsSplit ==
  /\ hpc = "start"
  /\ hSplit' = SplitHeads(hX, hHeads, hVec)
  /\ hpc' = "split"
  /\ UNCHANGED <<hHeads, hVec, hX, hCombined, notHeads>>

\* the call combine_heads on the tensor split_heads returned
HeadsCombine ==
  /\ hpc = "split"
  /\ hSplit.status = "ok"
  /\ hCombined' = CombineHeads(hSplit)
  /\ hpc' = "combined"
  /\ UNCHANGED <<hHeads, hVec, hX, hSplit, notHeads>>

HeadsNext == HeadsSplit \/ HeadsCombine

(***************************************************************************)
(* scaled_dot_product_attention on one (batch, head) slice.                *)
(*                                                                         *)
(* A score is a floating-point value: finite, -inf or NaN.  A finite score *)
(* n stands for the number n / sqrt(qk_length); all scores of a call share *)
(* the divisor, which is kept symbolic.                                    *)
(***************************************************************************)

Fin(n) == [k |-> "fin", n |-> n]
NegInf == [k |-> "-inf", n |-> 0]

RECURSIVE Dot(_, _)
Dot(u, w) == IF u = <<>> THEN 0 ELSE Head(u) * Head(w) + Dot(Tail(u), Tail(w))

\* torch.matmul(Q, K.transpose(-2, -1)) / (self.qk_length ** 0.5)
Scores(Q, K) == [t \in DOMAIN Q |-> [j \in DOMAIN K |-> Fin(Dot(Q[t], K[j]))]]

NoMask == [present |-> FALSE, m |-> <<>>]
Mask(m) == [present |-> TRUE, m |-> m]

\* Faulty variant, for the mutation check: masked_fill(mask == 1, -inf), the mask read the wrong way round.
MaskedFillInverted(sc, mask) ==
  IF ~mask.present THEN sc
  ELSE [t \in DOMAIN sc |-> [j \in DOMAIN sc[t] |->
          IF mask.m[t][j] # 0 THEN NegInf ELSE sc[t][j]]]

\* if mask is not None: scores = scores.masked_fill(mask == 0, float('-inf'))
MaskedFill(sc, mask) ==
  IF ~mask.present THEN sc
  ELSE [t \in DOMAIN sc |-> [j \in DOMAIN sc[t] |->
          IF mask.m[t][j] = 0 THEN NegInf ELSE sc[t][j]]]

\* A softmax weight: NaN, exactly zero, or the positive number
\* exp(e / sqrt(qk_length)) / sum of exp(d / sqrt(qk_length)) over d in den.
NaNWeight == [k |-> "nan", e |-> 0, den |-> <<>>]
ZeroWeight(den) == [k |-> "zero", e |-> 0, den |-> den]
PosWeight(e, den) == [k |-> "pos", e |-> e, den |-> den]

Finite(x) == x.k = "fin"

\* torch.softmax over one row: exp(x - max) / sum(exp(x - max)).  exp(-inf) is
\* exactly 0; in a row of -inf only, max is -inf and -inf - (-inf) is NaN.
SoftmaxRow(row) ==
  LET fin == SelectSeq(row, Finite)
  IN IF fin = <<>> THEN [j \in DOMAIN row |-> NaNWeight]
     ELSE LET mx == CHOOSE n \in {fin[i].n : i \in DOMAIN fin} :
                      \A i \in DOMAIN fin : fin[i].n <= n
              den == [i \in DOMAIN fin |-> fin[i].n - mx]
          IN [j \in DOMAIN row |->
                IF row[j].k = "-inf" THEN ZeroWeight(den)
                ELSE PosWeight(row[j].n - mx, den)]

\* torch.softmax(scores, dim=-1)
Softmax(sc) == [t \in DOMAIN sc |-> SoftmaxRow(sc[t])]

\* torch.matmul(attention_weights, V): element (t, c) is the sum over j of
\* weight[t][j] * V[j][c]; NaN as soon as one weight of the row is NaN.  The sum
\* is kept as its terms: the exponent of each non-zero weight and the weight's
\* position.
WeightedSum(W, V) ==
  [t \in DOMAIN W |-> [c \in DOMAIN V[1] |->
     IF \E j \in DOMAIN W[t] : W[t][j].k = "nan"
     THEN [k |-> "nan", terms |-> <<>>]
     ELSE [k |-> "fin",
           terms |-> [j \in DOMAIN W[t] |->
                        IF W[t][j].k = "pos" THEN V[j][c] ELSE 0]]]]

\* input matrices of the model: all ones, alternating signs, a ramp over rows
Pattern(name, rows, cols) ==
  [r \in 1..rows |-> [c \in 1..cols |->
     IF name = "ones" THEN 1
     ELSE IF name = "alt" THEN (IF (r + c) % 2 = 0 THEN 1 ELSE -1)
     ELSE r - 1]]

AttnIdle ==
  /\ aQ = <<>>
  /\ aK = <<>>
  /\ aV = <<>>
  /\ aMask = NoMask
  /\ aScores = <<>>
  /\ aMasked = <<>>
  /\ aWeights = <<>>
  /\ aOut = <<>>
  /\ apc = "idle"

AttnInit ==
  /\ aQ = <<>>
  /\ aK = <<>>
  /\ aV = <<>>
  /\ aMask = NoMask
  /\ aScores = <<>>
  /\ aMasked = <<>>
  /\ aWeights = <<>>
  /\ aOut = <<>>
  /\ apc = "start"

\* scaled_dot_product_attention(Q, K, V, mask)
Sdpa(Q, K, V, mask) ==
  /\ apc = "start"
  /\ aQ' = Q
  /\ aK' = K
  /\ aV' = V
  /\ aMask' = mask
  /\ aScores' = Scores(Q, K)
  /\ aMasked' = MaskedFill(aScores', mask)
  /\ aWeights' = Softmax(aMasked')
  /\ aOut' = WeightedSum(aWeights', V)
  /\ apc' = "done"

AttnMasked ==
  \E T \in 1..MaxT, S \in 1..MaxS, d \in 1..MaxVec :
    \E qn \in {"ones", "alt"}, kn \in {"ones", "alt", "ramp"}, vn \in {"ones", "ramp"} :
      \E m \in [1..T -> [1..S -> {0, 1}]] :
        /\ Sdpa(Pattern(qn, T, d), Pattern(kn, S, d), Pattern(vn, S, 1), Mask(m))
        /\ UNCHANGED notAttn

AttnUnmasked ==
  \E T \in 1..MaxT, S \in 1..MaxS, d \in 1..MaxVec :
    \E qn \in {"ones", "alt"}, kn \in {"ones", "alt", "ramp"}, vn \in {"ones", "ramp"} :
      /\ Sdpa(Pattern(qn, T, d), Pattern(kn, S, d), Pattern(vn, S, 1), NoMask)
      /\ UNCHANGED notAttn

AttnNext == AttnMasked \/ AttnUnmasked

(***************************************************************************)
(* MultiHeadAttention.forward on shapes.  The parameters of the layers are *)
(* random, so the elements of the tensors are not modelled: every tensor   *)
(* below carries zeros, and only its shape and the exception raised on the *)
(* way are tracked.                                                        *)
(***************************************************************************)

Zeros(sh) == Ok(sh, [n \in 1..Prod(sh) |-> 0])

Last(sh) == sh[Len(sh)]
Front(sh) == SubSeq(sh, 1, Len(sh) - 1)

\* nn.Linear(in_features, out_features) applied to x: the last dimension must be
\* in_features and becomes out_features
Linear(x, in_features, out_features) ==
  IF x.status # "ok" THEN x
  ELSE IF Last(x.shape) # in_features THEN Raised("RuntimeError")
  ELSE Zeros(Append(Front(x.shape), out_features))

\* a mask argument: None, or a tensor of the given shape
NoShapeMask == [present |-> FALSE, shape |-> <<>>]
ShapeMask(sh) == [present |-> TRUE, shape |-> sh]

\* whether a tensor of shape a broadcasts to shape b (dimensions aligned from the
\* right, each equal or 1)
BroadcastsTo(a, b) ==
  /\ Len(a) <= Len(b)
  /\ \A i \in 1..Len(a) :
       LET x == a[Len(a) - i + 1]
           y == b[Len(b) - i + 1]
       IN x = y \/ x = 1

\* scaled_dot_product_attention on shapes: Q (B, H, T, qk), K (B, H, S, qk),
\* V (B, H, S, v) give (B, H, T, v); both matmuls and masked_fill raise
\* RuntimeError on shapes that do not fit
SdpaShape(Q, K, V, mask) ==
  IF Q.status # "ok" THEN Q
  ELSE IF K.status # "ok" THEN K
  ELSE IF V.status # "ok" THEN V
  ELSE IF Q.shape[1] # K.shape[1] \/ Q.shape[2] # K.shape[2] \/ Q.shape[4] # K.shape[4]
       THEN Raised("RuntimeError")
  ELSE LET sc == <<Q.shape[1], Q.shape[2], Q.shape[3], K.shape[3]>>
       IN IF mask.present /\ ~BroadcastsTo(mask.shape, sc) THEN Raised("RuntimeError")
          ELSE IF V.shape[1] # sc[1] \/ V.shape[2] # sc[2] \/ V.shape[3] # sc[4]
               THEN Raised("RuntimeError")
          ELSE Zeros(<<sc[1], sc[2], sc[3], V.shape[4]>>)

IfOk(x, y) == IF x.status # "ok" THEN x ELSE y

\* MultiHeadAttention.__init__: the four linear layers, as (in, out) features
MHALayers(c) ==
  [Q |-> <<c.embedding_dim, c.num_heads * c.qk_length>>,
   K |-> <<c.embedding_dim, c.num_heads * c.qk_length>>,
   V |-> <<c.embedding_dim, c.num_heads * c.value_length>>,
   output_projection |-> <<c.num_heads * c.value_length, c.embedding_dim>>]

\* Faulty variant, for the mutation check: Q, K and V all split with qk_length.
MHAForwardSplitVWithQk(c, Q, K, V, mask) ==
  LET L == MHALayers(c)
      Qp == Linear(Q, L.Q[1], L.Q[2])
      Kp == IfOk(Qp, Linear(K, L.K[1], L.K[2]))
      Vp == IfOk(Kp, Linear(V, L.V[1], L.V[2]))
      Qs == IfOk(Vp, SplitHeads(Qp, c.num_heads, c.qk_length))
      Ks == IfOk(Qs, SplitHeads(Kp, c.num_heads, c.qk_length))
      Vs == IfOk(Ks, SplitHeads(Vp, c.num_heads, c.qk_length))
      attn == SdpaShape(Qs, Ks, Vs, mask)
      combined == IfOk(attn, CombineHeads(attn))
      out == Linear(combined, L.output_projection[1], L.output_projection[2])
  IN [Q_split |-> Qs, K_split |-> Ks, V_split |-> Vs, attn |-> attn,
      combined |-> combined, out |-> out]

\* MultiHeadAttention.forward: the tensors it computes, in order; an exception
\* raised by one step is the result of every later step
MHAForward(c, Q, K, V, mask) ==
  LET L == MHALayers(c)
      Qp == Linear(Q, L.Q[1], L.Q[2])
      Kp == IfOk(Qp, Linear(K, L.K[1], L.K[2]))
      Vp == IfOk(Kp, Linear(V, L.V[1], L.V[2]))
      Qs == IfOk(Vp, SplitHeads(Qp, c.num_heads, c.qk_length))
      Ks == IfOk(Qs, SplitHeads(Kp, c.num_heads, c.qk_length))
      Vs == IfOk(Ks, SplitHeads(Vp, c.num_heads, c.value_length))
      attn == SdpaShape(Qs, Ks, Vs, mask)
      combined == IfOk(attn, CombineHeads(attn))
      out == Linear(combined, L.output_projection[1], L.output_projection[2])
  IN [Q_split |-> Qs, K_split |-> Ks, V_split |-> Vs, attn |-> attn,
      combined |-> combined, out |-> out]

NoCfg == [num_heads |-> 0, embedding_dim |-> 0, qk_length |-> 0, value_length |-> 0]
NoMhaIn == [Q |-> NoTensor, K |-> NoTensor, V |-> NoTensor, mask |-> NoShapeMask]
NoMhaRes == [Q_split |-> NoTensor, K_split |-> NoTensor, V_split |-> NoTensor,
             attn |-> NoTensor, combined |-> NoTensor, out |-> NoTensor]

MhaIdle ==
  /\ mCfg = NoCfg
  /\ mIn = NoMhaIn
  /\ mRes = NoMhaRes
  /\ mpc = "idle"

\* after MultiHeadAttention(num_heads, embedding_dim, qk_length, value_length)
MhaInit ==
  /\ mCfg \in [num_heads : 1..MaxHeads, embedding_dim : 1..MaxEmb,
               qk_length : 1..MaxVec, value_length : 1..MaxVec]
  /\ mIn = NoMhaIn
  /\ mRes = NoMhaRes
  /\ mpc = "start"

\* the masks handed to a stand-alone layer for scores of shape (B, H, T, S):
\* a (T, S) mask, a (B, 1, 1, S) padding mask, and a (T, T) causal mask (which
\* fits only when S = T)
MhaMasks(B, T, S) ==
  {NoShapeMask, ShapeMask(<<T, S>>), ShapeMask(<<B, 1, 1, S>>), ShapeMask(<<T, T>>)}

\* a call layer(Q, K, V, mask) with Q of shape (B, T, embedding_dim) and K, V of
\* shape (B, S, embedding_dim)
MhaCall ==
  /\ mpc = "start"
  /\ \E B \in 1..MaxB, T \in 1..MaxT, S \in 1..MaxS :
       \E mask \in MhaMasks(B, T, S) :
         LET Q == Zeros(<<B, T, mCfg.embedding_dim>>)
             KV == Zeros(<<B, S, mCfg.embedding_dim>>)
         IN /\ mIn' = [Q |-> Q, K |-> KV, V |-> KV, mask |-> mask]
            /\ mRes' = MHAForward(mCfg, Q, KV, KV, mask)
  /\ mpc' = "done"
  /\ UNCHANGED <<mCfg, notMha>>

MhaNext == MhaCall

(***************************************************************************)
(* DecoderLayer.forward and Decoder.forward on shapes.                     *)
(***************************************************************************)

Max(a, b) == IF a >= b THEN a ELSE b

\* a + b of two 3-d tensors, with broadcasting
Add(a, b) ==
  IF a.status # "ok" THEN a
  ELSE IF b.status # "ok" THEN b
  ELSE IF \E i \in 1..3 : a.shape[i] # b.shape[i] /\ a.shape[i] # 1 /\ b.shape[i] # 1
       THEN Raised("RuntimeError")
  ELSE Zeros([i \in 1..3 |-> Max(a.shape[i], b.shape[i])])

\* nn.LayerNorm(embedding_dim) applied to x
LayerNorm(x, embedding_dim) ==
  IF x.status # "ok" THEN x
  ELSE IF Last(x.shape) # embedding_dim THEN Raised("RuntimeError")
  ELSE x

\* FeedForwardNN.forward: linear1, relu, linear2
FeedForward(x, embedding_dim, hidden_dim) ==
  Linear(Linear(x, embedding_dim, hidden_dim), hidden_dim, embedding_dim)

\* the MultiHeadAttention layers of a DecoderLayer (self_attn and cross_attn are
\* built with the same arguments)
AttnCfg(c) ==
  [num_heads |-> c.num_heads, embedding_dim |-> c.embedding_dim,
   qk_length |-> c.qk_length, value_length |-> c.value_length]

\* attn1 = self.self_attn(x, x, x, tgt_mask); x = self.norm1(x + attn1)
SelfAttnBlock(c, x, tgt_mask) ==
  LET attn1 == MHAForward(AttnCfg(c), x, x, x, tgt_mask).out
  IN LayerNorm(Add(x, attn1), c.embedding_dim)

\* attn2 = self.cross_attn(x, enc_x, enc_x, src_mask); x = self.norm2(x + attn2)
CrossAttnBlock(c, x, enc_x, src_mask) ==
  LET attn2 == MHAForward(AttnCfg(c), x, enc_x, enc_x, src_mask).out
  IN LayerNorm(Add(x, attn2), c.embedding_dim)

\* ffn_out = self.ffn(x); x = self.norm3(x + ffn_out)
FfnBlock(c, x) ==
  LET ffn_out == FeedForward(x, c.embedding_dim, c.ffn_hidden_dim)
  IN LayerNorm(Add(x, ffn_out), c.embedding_dim)

\* Faulty variant, for the mutation check: the cross-attention block run whether or not enc_x is None.
AlwaysCross(enc_x) == TRUE

\* if enc_x is not None
RunsCrossAttention(enc_x) == enc_x.status # "none"

\* nn.Embedding(vocab_size, embedding_dim) applied to token ids: IndexError on an
\* id outside 0..vocab_size-1
Embedding(tokens, vocab_size, embedding_dim) ==
  IF tokens.max_id >= vocab_size \/ tokens.min_id < 0 THEN Raised("IndexError")
  ELSE Zeros(Append(tokens.shape, embedding_dim))

\* PositionalEncoding (defined in the encoder module): adds sinusoidal position
\* signals to the embeddings, so the shape is kept
PositionalEncoding(x) == x

\* Faulty variant, for the mutation check: the output projection left out.
NoOutProjection(x, embedding_dim, vocab_size) == x

\* self.out = nn.Linear(embedding_dim, vocab_size) applied to x
OutProjection(x, embedding_dim, vocab_size) == Linear(x, embedding_dim, vocab_size)

\* the record a sub-block leaves in the log: the layer, the sub-block, its layer
\* normalization, and the variables handed to the attention layer
LogSelfAttn(i) ==
  [layer |-> i, block |-> "self_attn", norm |-> "norm1",
   q |-> "x", k |-> "x", v |-> "x", mask |-> "tgt_mask"]
LogCrossAttn(i) ==
  [layer |-> i, block |-> "cross_attn", norm |-> "norm2",
   q |-> "x", k |-> "enc_x", v |-> "enc_x", mask |-> "src_mask"]
LogFfn(i) ==
  [layer |-> i, block |-> "ffn", norm |-> "norm3",
   q |-> "", k |-> "", v |-> "", mask |-> ""]

\* the arguments of Decoder(...) in the model
DecConfigs ==
  {[vocab_size |-> 4, num_layers |-> n, num_heads |-> a[1], embedding_dim |-> e,
    ffn_hidden_dim |-> 2, qk_length |-> a[2], value_length |-> a[3]] :
     n \in 0..MaxLayers, a \in {<<1, 1, 1>>, <<2, 1, 2>>}, e \in {1, 3}}

NoDecCfg ==
  [vocab_size |-> 0, num_layers |-> 0, num_heads |-> 0, embedding_dim |-> 0,
   ffn_hidden_dim |-> 0, qk_length |-> 0, value_length |-> 0]
NoTokens == [shape |-> <<>>, min_id |-> 0, max_id |-> 0]
NoDecIn ==
  [tokens |-> NoTokens, enc_x |-> NoTensor, tgt_mask |-> NoShapeMask,
   src_mask |-> NoShapeMask]

DecIdle ==
  /\ dCfg = NoDecCfg
  /\ dIn = NoDecIn
  /\ dX = NoTensor
  /\ dLayer = 0
  /\ dLog = <<>>
  /\ dpc = "idle"

\* after Decoder(vocab_size, num_layers, ...)
DecInit ==
  /\ dCfg \in DecConfigs
  /\ dIn = NoDecIn
  /\ dX = NoTensor
  /\ dLayer = 0
  /\ dLog = <<>>
  /\ dpc = "start"

\* the step after a statement of forward: the exception propagates, or the
\* next statement runs
After(x, next) == IF x.status # "ok" THEN "raised" ELSE next

\* the first sub-block of the layer loop, or the output projection when there
\* is no layer (left)
LayerOrOut(i) == IF i <= dCfg.num_layers THEN "self_attn" ELSE "out"

\* a call decoder(x, enc_x, tgt_mask, src_mask): token ids of shape (B, T), in
\* or out of the vocabulary; no encoder output or one of shape
\* (B, S, embedding_dim); no target mask or a (T, T) causal mask; no source
\* mask, a (B, 1, 1, S) padding mask or a (T, T) mask
DecCall ==
  /\ dpc = "start"
  /\ \E B \in 1..MaxB, T \in 1..MaxT :
       \E top \in {dCfg.vocab_size - 1, dCfg.vocab_size} :
         \E enc \in {NoTensor} \cup {Zeros(<<B, S, dCfg.embedding_dim>>) : S \in 1..MaxS} :
           \E tm \in {NoShapeMask, ShapeMask(<<T, T>>)} :
             \E sm \in {NoShapeMask, ShapeMask(<<T, T>>)}
                         \cup (IF enc.status = "none" THEN {}
                               ELSE {ShapeMask(<<B, 1, 1, enc.shape[2]>>)}) :
               dIn' = [tokens |-> [shape |-> <<B, T>>, min_id |-> 0, max_id |-> top],
                       enc_x |-> enc, tgt_mask |-> tm, src_mask |-> sm]
  /\ dpc' = "embed"
  /\ UNCHANGED <<dCfg, dX, dLayer, dLog, notDec>>

\* x = self.token_embedding(x)
DecEmbed ==
  /\ dpc = "embed"
  /\ dX' = Embedding(dIn.tokens, dCfg.vocab_size, dCfg.embedding_dim)
  /\ dpc' = After(dX', "posenc")
  /\ UNCHANGED <<dCfg, dIn, dLayer, dLog, notDec>>

\* x = self.positional_encoding(x), then the loop over self.layers starts
DecPosEnc ==
  /\ dpc = "posenc"
  /\ dX' = PositionalEncoding(dX)
  /\ dLayer' = 1
  /\ dpc' = After(dX', LayerOrOut(1))
  /\ UNCHANGED <<dCfg, dIn, dLog, notDec>>

\* DecoderLayer.forward, masked self-attention
DecSelfAttn ==
  /\ dpc = "self_attn"
  /\ dX' = SelfAttnBlock(dCfg, dX, dIn.tgt_mask)
  /\ dLog' = Append(dLog, LogSelfAttn(dLayer))
  /\ dpc' = After(dX', "cross_attn")
  /\ UNCHANGED <<dCfg, dIn, dLayer, notDec>>

\* DecoderLayer.forward, cross-attention when enc_x is not None (a linear layer
\* applied to None raises TypeError)
DecCrossAttn ==
  /\ dpc = "cross_attn"
  /\ RunsCrossAttention(dIn.enc_x)
  /\ dX' = IF dIn.enc_x.status = "none" THEN Raised("TypeError")
           ELSE CrossAttnBlock(dCfg, dX, dIn.enc_x, dIn.src_mask)
  /\ dLog' = Append(dLog, LogCrossAttn(dLayer))
  /\ dpc' = After(dX', "ffn")
  /\ UNCHANGED <<dCfg, dIn, dLayer, notDec>>

\* DecoderLayer.forward, enc_x is None: the cross-attention block is skipped
DecSkipCrossAttn ==
  /\ dpc = "cross_attn"
  /\ ~RunsCrossAttention(dIn.enc_x)
  /\ dpc' = "ffn"
  /\ UNCHANGED <<dCfg, dIn, dX, dLayer, dLog, notDec>>

\* DecoderLayer.forward, feed-forward block; the layer returns and the loop of
\* Decoder.forward goes on
DecFfn ==
  /\ dpc = "ffn"
  /\ dX' = FfnBlock(dCfg, dX)
  /\ dLog' = Append(dLog, LogFfn(dLayer))
  /\ dLayer' = dLayer + 1
  /\ dpc' = After(dX', LayerOrOut(dLayer + 1))
  /\ UNCHANGED <<dCfg, dIn, notDec>>

\* x = self.out(x); return x
DecOut ==
  /\ dpc = "out"
  /\ dX' = OutProjection(dX, dCfg.embedding_dim, dCfg.vocab_size)
  /\ dpc' = After(dX', "done")
  /\ UNCHANGED <<dCfg, dIn, dLayer, dLog, notDec>>

DecNext ==
  \/ DecCall
  \/ DecEmbed
  \/ DecPosEnc
  \/ DecSelfAttn
  \/ DecCrossAttn
  \/ DecSkipCrossAttn
  \/ DecFfn
  \/ DecOut

(***************************************************************************)
(* Specifications: one per component; the variables of the other           *)
(* components stay idle.                                                   *)
(***************************************************************************)

InitTok == TokInit /\ HeadsIdle /\ AttnIdle /\ MhaIdle /\ DecIdle
SpecTok == InitTok /\ [][TokNext]_vars

InitHeads == HeadsInit /\ TokAbsent /\ AttnIdle /\ MhaIdle /\ DecIdle
SpecHeads == InitHeads /\ [][HeadsNext]_vars

InitAttn == AttnInit /\ TokAbsent /\ HeadsIdle /\ MhaIdle /\ DecIdle
SpecAttn == InitAttn /\ [][AttnNext]_vars

InitMha == MhaInit /\ TokAbsent /\ HeadsIdle /\ AttnIdle /\ DecIdle
SpecMha == InitMha /\ [][MhaNext]_vars

InitDec == DecInit /\ TokAbsent /\ HeadsIdle /\ AttnIdle /\ MhaIdle
SpecDec == InitDec /\ [][DecNext]_vars

(***************************************************************************)
(* Claims about CharacterTokenizer, under SpecTok.                         *)
(***************************************************************************)

\* every character of the lower-cased string is a vocabulary character
InVocabText(s) == \A i \in DOMAIN LowerText(s) : LowerText(s)[i] \in DOMAIN vocab

\* the last call decoded the tensor that encode(text) returned
RoundTripDone == last = "decode" /\ ids = encoded

\* C1 as stated: for any string s whose lower-cased characters are all in the
\* vocabulary, decode(encode(s)) == s.
C1_RoundTripIsInput == (RoundTripDone /\ InVocabText(text)) => decoded = text

\* C1 as amended: for any string s whose lower-cased characters are all in the
\* vocabulary, decode(encode(s)) == s.lower().
C1_RoundTripIsLowered == (RoundTripDone /\ InVocabText(text)) => decoded = LowerText(text)

\* "A;" went through encode and decode and came back as "a;"
C1_Witness == RoundTripDone /\ text = <<65, 59>> /\ decoded = <<97, 59>>

\* C2: the vocabulary is a bijection between alphabet positions and ids: the
\* character at position i has id i, no two positions share an id, and every
\* id in 0..len(alphabet)-1 decodes to the character at that position.
C2_PositionsAreIds ==
  /\ \A i \in 1..Len(characters) : vocab[characters[i]] = i - 1
  /\ \A i, j \in 1..Len(characters) :
       vocab[characters[i]] = vocab[characters[j]] => i = j
  /\ \A i \in 1..Len(characters) :
       DecodeOp(vocab, Tensor(<<i - 1>>)) = <<characters[i]>>

InVocab(c) == c \in DOMAIN vocab

\* C6: encode returns, in input order, the id of each in-vocabulary character of
\* the lower-cased input and nothing for the others; the output length is the
\* number of in-vocabulary characters of the lower-cased input.
C6_EncodeSkipsUnknownChars ==
  last = "encode" =>
    LET lt == LowerText(text)
        kept == SelectSeq(lt, InVocab)
    IN /\ Len(encoded.data) = Cardinality({i \in DOMAIN lt : lt[i] \in DOMAIN vocab})
       /\ Len(encoded.data) = Len(kept)
       /\ \A i \in DOMAIN kept : encoded.data[i] = vocab[kept[i]]

\* encode("A<TAB>;") returned the ids of 'a' and ';' and skipped the TAB
C6_Witness == last = "encode" /\ text = <<65, 9>> /\ encoded.data = <<0>>

KnownId(id) == \E c \in DOMAIN vocab : vocab[c] = id

\* C7: decode returns, in order, the character of each id that some vocabulary
\* character maps to, and nothing for every other id; it never fails.
C7_DecodeSkipsUnknownIds ==
  last = "decode" =>
    LET kept == SelectSeq(ids.data, KnownId)
    IN /\ Len(decoded) = Len(kept)
       /\ \A i \in DOMAIN kept :
            decoded[i] \in DOMAIN vocab /\ vocab[decoded[i]] = kept[i]

\* decode([53, 217]): id 53 (the first ';' position) is unknown and skipped
C7_Witness == last = "decode" /\ ids.data = <<53, 217>> /\ decoded = <<59>>

\* C8: no encode or decode call changes the vocabulary or the alphabet.
C8_VocabStatic == [][vocab' = vocab /\ characters' = characters]_vars

\* encode of a string with an out-of-vocabulary character, then decode, done
C8_Witness ==
  RoundTripDone /\ text = <<9, 97>> /\ vocab = InitialVocab /\ characters = Alphabet

(***************************************************************************)
(* Claims about split_heads and combine_heads, under SpecHeads.            *)
(***************************************************************************)

\* element (b, t, c) of a 3-d tensor and (b, h, t, v) of a 4-d tensor, 0-based
At3(x, b, t, c) == x.data[(b * x.shape[2] + t) * x.shape[3] + c + 1]
At4(x, b, h, t, v) ==
  x.data[((b * x.shape[2] + h) * x.shape[3] + t) * x.shape[4] + v + 1]

\* C3: for x of shape (B, T, C) with C = num_heads * vec_length, split_heads
\* returns shape (B, num_heads, T, vec_length) with head h holding channels
\* h*vec_length .. (h+1)*vec_length-1 of each position, and combine_heads of it
\* equals x element for element, with shape (B, T, C).
C3_SplitCombineIdentity ==
  (hpc # "start" /\ hX.shape[3] = hHeads * hVec) =>
    LET B == hX.shape[1]
        T == hX.shape[2]
    IN /\ hSplit.status = "ok"
       /\ hSplit.shape = <<B, hHeads, T, hVec>>
       /\ \A b \in 0..(B - 1), h \in 0..(hHeads - 1), t \in 0..(T - 1), v \in 0..(hVec - 1) :
            At4(hSplit, b, h, t, v) = At3(hX, b, t, h * hVec + v)
       /\ hpc = "combined" =>
            /\ hCombined.status = "ok"
            /\ hCombined.shape = hX.shape
            /\ hCombined.data = hX.data

\* a (2, 2, 4) tensor split into 2 heads of length 2 and combined again
C3_Witness ==
  /\ hpc = "combined"
  /\ hX.shape = <<2, 2, 4>>
  /\ hHeads = 2
  /\ hVec = 2
  /\ hSplit.shape = <<2, 2, 2, 2>>
  /\ hSplit.data # hX.data

(***************************************************************************)
(* Claims about scaled_dot_product_attention, under SpecAttn.              *)
(***************************************************************************)

\* every key position of query row t is masked
FullyMasked(t) == \A j \in DOMAIN aMask.m[t] : aMask.m[t][j] = 0

\* masked_fill: -inf where the mask is 0, the unmasked score elsewhere
MaskedScores ==
  \A t \in DOMAIN aMask.m : \A j \in DOMAIN aMask.m[t] :
    IF aMask.m[t][j] = 0 THEN aMasked[t][j] = NegInf
    ELSE aMasked[t][j] = aScores[t][j]

\* C4 as stated: for every mask and every query row, each key position whose
\* mask entry is 0 has score -inf before the softmax and weight exactly zero
\* after it, and every other position keeps its unmasked score.
C4_MaskedWeightZero ==
  (apc = "done" /\ aMask.present) =>
    /\ MaskedScores
    /\ \A t \in DOMAIN aMask.m : \A j \in DOMAIN aMask.m[t] :
         aMask.m[t][j] = 0 => aWeights[t][j].k = "zero"

\* C4 as amended: the same, for every query row that has at least one key
\* position with a non-zero mask entry; in a row whose mask entries are all 0
\* every weight is NaN.
C4_MaskedWeightZeroUnlessAllMasked ==
  (apc = "done" /\ aMask.present) =>
    /\ MaskedScores
    /\ \A t \in DOMAIN aMask.m : \A j \in DOMAIN aMask.m[t] :
         /\ (aMask.m[t][j] = 0 /\ ~FullyMasked(t)) => aWeights[t][j].k = "zero"
         /\ (aMask.m[t][j] # 0) => aWeights[t][j].k = "pos"
         /\ FullyMasked(t) => aWeights[t][j].k = "nan"

\* a call with a mask that hides the first of two keys from the first query
C4_Witness ==
  /\ apc = "done"
  /\ aMask.present
  /\ aMask.m[1] = <<0, 1>>
  /\ aWeights[1][1].k = "zero"
  /\ aWeights[1][2].k = "pos"
  /\ aScores[1][1] # aScores[1][2]

(***************************************************************************)
(* Claims about MultiHeadAttention.forward, under SpecMha.                 *)
(***************************************************************************)

\* the mask of the call is None or broadcasts to the scores' shape (B, H, T, S)
MhaMaskFits ==
  \/ ~mIn.mask.present
  \/ BroadcastsTo(mIn.mask.shape,
                  <<mIn.Q.shape[1], mCfg.num_heads, mIn.Q.shape[2], mIn.K.shape[2]>>)

MhaResults == {mRes.Q_split, mRes.K_split, mRes.V_split, mRes.attn, mRes.combined, mRes.out}

\* C10: for any positive num_heads, qk_length, value_length and embedding_dim
\* and any Q of shape (B, T, embedding_dim) and K, V of shape
\* (B, S, embedding_dim), forward never fails the assertion of split_heads and
\* (with no mask, or one that fits the scores) returns a tensor of Q's shape.
C10_ForwardKeepsQueryShape ==
  mpc = "done" =>
    /\ \A r \in MhaResults : r.status # "AssertionError"
    /\ MhaMaskFits =>
         /\ mRes.Q_split.shape = <<mIn.Q.shape[1], mCfg.num_heads, mIn.Q.shape[2], mCfg.qk_length>>
         /\ mRes.V_split.shape = <<mIn.V.shape[1], mCfg.num_heads, mIn.V.shape[2], mCfg.value_length>>
         /\ mRes.out.status = "ok"
         /\ mRes.out.shape = mIn.Q.shape

\* a call with qk_length # value_length, two heads and S # T
C10_Witness ==
  /\ mpc = "done"
  /\ mCfg.num_heads = 2
  /\ mCfg.qk_length = 1
  /\ mCfg.value_length = 2
  /\ mIn.Q.shape[2] = 1
  /\ mIn.K.shape[2] = 2
  /\ mRes.out.status = "ok"

(***************************************************************************)
(* Claims about Decoder and DecoderLayer, under SpecDec.                   *)
(***************************************************************************)

EncGiven == dIn.enc_x.status # "none"

\* the arguments of the call are well-formed: token ids within the vocabulary,
\* and a source mask (when it is used) that fits the cross-attention scores
ValidDecIn ==
  /\ dIn.tokens.min_id >= 0
  /\ dIn.tokens.max_id < dCfg.vocab_size
  /\ (EncGiven /\ dIn.src_mask.present /\ dCfg.num_layers > 0) =>
       BroadcastsTo(dIn.src_mask.shape,
                    <<dIn.tokens.shape[1], dCfg.num_heads, dIn.tokens.shape[2],
                      dIn.enc_x.shape[2]>>)

C9_SubBlockOrder ==
  LET per == IF EncGiven THEN 3 ELSE 2
  IN /\ \A n \in DOMAIN dLog :
          LET e == dLog[n]
              r == (n - 1) % per
          IN /\ e.layer = (n - 1) \div per + 1
             /\ e.layer <= dCfg.num_layers
             /\ r = 0 => /\ e.block = "self_attn" /\ e.norm = "norm1"
                         /\ e.q = "x" /\ e.k = "x" /\ e.v = "x"
                         /\ e.mask = "tgt_mask"
             /\ (EncGiven /\ r = 1) =>
                         /\ e.block = "cross_attn" /\ e.norm = "norm2"
                         /\ e.q = "x" /\ e.k = "enc_x" /\ e.v = "enc_x"
                         /\ e.mask = "src_mask"
             /\ r = per - 1 => e.block = "ffn" /\ e.norm = "norm3"
     /\ dpc \in {"out", "done"} => Len(dLog) = per * dCfg.num_layers
     /\ dpc = "cross_attn" => Len(dLog) % per = 1
     /\ dpc = "ffn" => Len(dLog) % per = per - 1

\* one layer ran without an encoder output: self-attention, then feed-forward
C9_Witness ==
  /\ dpc = "done"
  /\ ~EncGiven
  /\ dCfg.num_layers = 1
  /\ Len(dLog) = 2
  /\ dLog[1].block = "self_attn"
  /\ dLog[2].block = "ffn"

====
